---------------------------- MODULE Spec2Model ----------------------------
(***************************************************************************)
(* A model of the AOI backend (src/aoi_backend_server.py): the video       *)
(* inspection pipeline of YOLOv10AOIBackend.process_pcb_video, the         *)
(* verdict policies, and the artifact store with its retention sweep       *)
(* (cleanup_old_files) as the Flask request handlers drive it.             *)
(*                                                                         *)
(* Three specifications share the module:                                  *)
(*   SpecPolicy  the verdict arithmetic as pure functions of their inputs  *)
(*   SpecVideo   one video job, step by step                               *)
(*   Spec        the request handlers and the files under uploads/ and     *)
(*               results/, interleaved as the threaded server runs them    *)
(* Every specification leaves the variables of the others at their idle    *)
(* values.                                                                 *)
(***************************************************************************)
EXTENDS Integers, Sequences, FiniteSets, TLC

VARIABLES
    polIn, polOut,                      \* inputs and result of a function under check
    vpc, video, cand, tried, writer,    \* SpecVideo: position, input, codec trial loop
    frame_interval, frame_count,        \* SpecVideo: the frame loop
    inferred, written, defect_frames,
    vdisk, reopened, output_video_path, \* SpecVideo: files of the job
    convert, frame_results, vresult,    \* SpecVideo: transcode log and results
    now, files, locked,                 \* Spec: clock, files (name -> mtime), unremovable files
    requests,                           \* Spec: requests started so far
    bpc, bN, bDone, bResults,           \* Spec: inspect_batch
    spc, sFiles,                        \* Spec: inspect_video, by its file effects
    swept                               \* Spec: what the latest step did, when it was a sweep

policyVars == <<polIn, polOut>>
videoVars  == <<vpc, video, cand, tried, writer, frame_interval, frame_count,
                inferred, written, defect_frames, vdisk, reopened,
                output_video_path, convert, frame_results, vresult>>
storeVars  == <<now, files, locked, requests, bpc, bN, bDone, bResults,
                spc, sFiles, swept>>
vars == <<policyVars, videoVars, storeVars>>

\* The empty value of a record-valued variable, and of a path-valued one.
None == [none |-> TRUE]
NoPath == "none"

Max(a, b) == IF a >= b THEN a ELSE b
Min(a, b) == IF a <= b THEN a ELSE b

(***************************************************************************)
(* Bounds of the model.                                                    *)
(***************************************************************************)
MaxPolicyTotal == 100      \* total_frames of the metadata, policy inputs
MaxPolicyDefectFrames == 16 \* frames_with_defects, policy inputs
MaxStream == 3             \* frames a modelled stream delivers
MaxDefects == 4            \* detections the detector returns for one frame
MaxTicks == 1              \* clock ticks of the store model
TickSeconds == 900         \* seconds per clock tick
MaxRequests == 1           \* requests the store model starts
MaxBatch == 2              \* files of one batch request
MaxNameSeconds == 1        \* clock seconds of two artifact writes, from 0
MaxFrameNo == 2            \* frame numbers of a frame image, from 1
MaxProcessed == 22         \* processed frames of a video, result list inputs
MaxBoxes == 3              \* boxes the detector returns for one image
MaxAllDefects == 4         \* detections of all processed frames of a video
MaxHighConfCount == 6      \* high_conf_count of a metrics record
MaxTotalDetections == 16   \* total_detection_count of a metrics record
MaxClassId == 9            \* class ids the detector reports, from 0
MaxRawBoxes == 2           \* boxes of one detector call, normalizer inputs
MaxStored == 2             \* inspections run before a result is read back
MaxResultSeconds == 1      \* clock seconds of the result store, from 0
MaxDemoRounds == 3         \* passes of the demo generator loop
MaxUpdates == 2            \* sensor updates posted by the Arduino

(***************************************************************************)
(* Frame sampling: frame_interval = max(1, int(fps * 0.7)).                *)
(***************************************************************************)
RECURSIVE BinadeFloor(_)
\* The largest power of two that is <= n (n >= 1): the binade of the double n.
BinadeFloor(n) == IF n < 2 THEN 1 ELSE 2 * BinadeFloor(n \div 2)

\* int(a * 0.7) for a whole a >= 0, as Python computes it in binary64.  The
\* literal 0.7 is the double 0.7 - 0.4 * 2^-53, so the exact product is
\* 0.7a - 0.4a * 2^-53.  When 0.7a is not whole it lies at least 0.1 from a whole
\* number and rounding cannot move it across one: the result is floor(7a/10).
\* When 0.7a is a whole N (a is a multiple of 10) the product lies just below N,
\* and rounds to the double below N, whose truncation is N - 1, exactly when the
\* deficit 0.4a * 2^-53 exceeds half the spacing of the doubles below N, which is
\* BinadeFloor(N) * 2^-53: when 2a > 5 * BinadeFloor(N).  (90.0 * 0.7 is
\* 62.99999999999999; 10.0 * 0.7 is 7.0.)
TruncMul07(a) ==
    LET N == (7 * a) \div 10
    IN  IF a > 0 /\ a % 10 = 0 /\ 2 * a > 5 * BinadeFloor(N) THEN N - 1 ELSE N

\* int(fps * 0.7): int() truncates toward zero, the product is odd in fps.
int_fps_07(fps) == IF fps >= 0 THEN TruncMul07(fps) ELSE 0 - TruncMul07(0 - fps)

\* line 359
compute_frame_interval(fps) == Max(1, int_fps_07(fps))

\* A changed should_process: the first frame inferred is frame `interval'.
should_process_offset(count, interval) == count % interval = 0

\* line 371: the frame with 1-based index frame_count gets inference
should_process(count, interval) == (count - 1) % interval = 0

(***************************************************************************)
(* Density policy, lines 458-473.                                          *)
(***************************************************************************)
FailNum == 3        \* defect_density > 0.3   is  10 * fwd > 3 * processed
FailDen == 10
QuestNum == 15      \* defect_density > 0.15  is  100 * fwd > 15 * processed
QuestDen == 100

\* line 459: (total_frames + frame_interval - 1) // frame_interval, Python's
\* floor division (\div floors too).
processed_frames(total_frames, interval) == (total_frames + interval - 1) \div interval

\* line 461: frames_with_defects / processed_frames if processed_frames > 0 else 0,
\* kept as the exact fraction <<numerator, denominator>>.
defect_density(fwd, processed) == IF processed > 0 THEN <<fwd, processed>> ELSE <<0, 1>>

\* A changed density_status: the FAIL threshold taken inclusively.
density_status_inclusive(density) ==
    IF FailDen * density[1] >= FailNum * density[2] THEN "FAIL"
    ELSE IF QuestDen * density[1] > QuestNum * density[2] THEN "QUESTIONABLE"
    ELSE "PASS"

\* lines 468-473.  defect_density is a double; a correctly rounded quotient of
\* small integers compares with the literals 0.3 and 0.15 as the exact fraction
\* does (the denominator is positive).
density_status(density) ==
    IF FailDen * density[1] > FailNum * density[2] THEN "FAIL"
    ELSE IF QuestDen * density[1] > QuestNum * density[2] THEN "QUESTIONABLE"
    ELSE "PASS"

(***************************************************************************)
(* Per-frame sub-verdict, lines 541-548.                                   *)
(***************************************************************************)
FrameFailAbove == 3
FrameQuestAbove == 1

\* A changed frame_status: every defect frame fails.
frame_status_any_defect_fails(frame_defect_count) == "FAIL"

frame_status(frame_defect_count) ==
    IF frame_defect_count > FrameFailAbove THEN "FAIL"
    ELSE IF frame_defect_count > FrameQuestAbove THEN "QUESTIONABLE"
    ELSE "FAIL"


(***************************************************************************)
(* Idle values: what a specification leaves the other parts at.            *)
(***************************************************************************)
PolicyIdle == polIn = None /\ polOut = None

VideoIdle ==
    /\ vpc = "idle" /\ video = None /\ cand = 0 /\ tried = <<>> /\ writer = None
    /\ frame_interval = 0 /\ frame_count = 0
    /\ inferred = {} /\ written = <<>> /\ defect_frames = <<>>
    /\ vdisk = <<>> /\ reopened = {} /\ output_video_path = NoPath
    /\ convert = None /\ frame_results = <<>> /\ vresult = None

StoreIdle ==
    /\ now = 0 /\ files = <<>> /\ locked = {} /\ requests = 0
    /\ bpc = "idle" /\ bN = 0 /\ bDone = 0 /\ bResults = <<>>
    /\ spc = "idle" /\ sFiles = None /\ swept = None

(***************************************************************************)
(* SpecPolicy: the density policy of a video job as a function of the      *)
(* metadata frame count, the frame rate and the number of defect frames.   *)
(***************************************************************************)
PolicyFps == {1, 2, 3, 5, 10, 90}

PolicyInit ==
    /\ polIn \in [total_frames : 0..MaxPolicyTotal, fps : PolicyFps,
                  frames_with_defects : 0..MaxPolicyDefectFrames]
    /\ polOut = None
    /\ VideoIdle /\ StoreIdle

\* lines 359 and 458-473 on one set of inputs
ComputeDensityVerdict ==
    /\ polOut = None
    /\ LET interval  == compute_frame_interval(polIn.fps)
           processed == processed_frames(polIn.total_frames, interval)
           density   == defect_density(polIn.frames_with_defects, processed)
       IN  polOut' = [frame_interval |-> interval, processed_frames |-> processed,
                      defect_density |-> density, status |-> density_status(density)]
    /\ UNCHANGED <<polIn, videoVars, storeVars>>

PolicyNext == ComputeDensityVerdict

SpecPolicy == PolicyInit /\ [][PolicyNext]_vars

\* C1: density policy.  processed_frames is the ceiling of
\* total_frames / frame_interval; the density is frames_with_defects /
\* processed_frames, 0 when no frame is processed; the status is FAIL iff
\* density > 0.30, QUESTIONABLE iff 0.15 < density <= 0.30, PASS otherwise
\* (density exactly 0.30 is QUESTIONABLE, exactly 0.15 is PASS); and for
\* total_frames = 100 at 10 fps the interval is 7, 15 frames are processed,
\* and 5, 3, 2 defect frames give FAIL, QUESTIONABLE, PASS.
C1_DensityPolicy ==
    polOut # None =>
        LET t == polIn.total_frames
            f == polIn.frames_with_defects
            i == polOut.frame_interval
            p == polOut.processed_frames
            d == polOut.defect_density
            st == polOut.status
        IN  /\ i >= 1
            /\ p * i >= t /\ (p - 1) * i < t
            /\ (p > 0 => d[1] * p = f * d[2] /\ d[2] > 0)
            /\ (p = 0 => d[1] = 0)
            /\ (st = "FAIL" <=> 10 * d[1] > 3 * d[2])
            /\ (st = "QUESTIONABLE" <=> (100 * d[1] > 15 * d[2] /\ 10 * d[1] <= 3 * d[2]))
            /\ (st = "PASS" <=> 100 * d[1] <= 15 * d[2])
            /\ (t = 100 /\ polIn.fps = 10 =>
                    /\ i = 7 /\ p = 15
                    /\ (f = 5 => st = "FAIL")
                    /\ (f = 3 => st = "QUESTIONABLE")
                    /\ (f = 2 => st = "PASS"))

\* A job whose density is exactly 0.30 (3 defect frames of 10 processed).
C1_Witness ==
    /\ polOut # None
    /\ polOut.processed_frames = 10 /\ polIn.frames_with_defects = 3
    /\ polOut.status = "QUESTIONABLE"


(***************************************************************************)
(* SpecVideo: one run of process_pcb_video.                                *)
(***************************************************************************)
\* What the container metadata and the stream of one upload can be: whether
\* VideoCapture opens it, CAP_PROP_FPS, CAP_PROP_FRAME_WIDTH/HEIGHT, the
\* frames the stream delivers and the CAP_PROP_FRAME_COUNT it reports (an
\* estimate of the container, not always the number delivered).
VideoFps == {-1, 0, 1, 3, 90}
VideoDims == {<<2, 2>>, <<0, 2>>, <<2, 0>>, <<-1, -1>>}
FrameShape == <<2, 2>>       \* (width, height) of the frames cap.read() returns
MetaFrames(n) == {n, n + 1, 0} \cup (IF n >= 2 THEN {n - 1} ELSE {})
VideoInputs ==
    UNION { { [opens |-> o, fps |-> f, width |-> d[1], height |-> d[2],
               frames |-> n, total_frames |-> t] :
                o \in BOOLEAN, f \in VideoFps, d \in VideoDims, t \in MetaFrames(n) } :
            n \in 0..MaxStream }

\* lines 284, 314-316, 442: the paths of one job (video_id and timestamp fixed)
UploadPath == "uploads/V_T.mp4"
video_formats ==
    << [path |-> "results/V_T_processed.avi", codec |-> "XVID", container |-> "AVI"],
       [path |-> "results/V_T_processed.avi", codec |-> "MJPG", container |-> "AVI"],
       [path |-> "results/V_T_processed.mp4", codec |-> "MJPG", container |-> "MP4"] >>
browser_video_path == "results/V_T_processed.mp4"

Exists(disk, path) == path \in DOMAIN disk
PutFile(disk, path, file) == [q \in DOMAIN disk \cup {path} |-> IF q = path THEN file ELSE disk[q]]

VideoInit == PolicyIdle /\ VideoIdle /\ StoreIdle

\* lines 585-592: any exception ends the job with an ERROR record
VideoFail ==
    /\ vpc' = "error"
    /\ vresult' = [status |-> "ERROR", error |-> TRUE]

\* lines 307-308
invalid_properties(v) == v.width = 0 \/ v.height = 0 \/ v.fps = 0

\* lines 278-308: save the upload, open it, read and check its properties
StartVideo ==
    /\ vpc = "idle"
    /\ \E v \in VideoInputs :
        /\ video' = v
        /\ vdisk' = PutFile(vdisk, UploadPath, [frames |-> v.frames, nonempty |-> TRUE])
        /\ IF ~v.opens \/ invalid_properties(v)
           THEN VideoFail /\ cand' = cand
           ELSE vpc' = "codec" /\ cand' = 1 /\ vresult' = vresult
    /\ UNCHANGED <<tried, writer, frame_interval, frame_count, inferred, written,
                   defect_frames, reopened, output_video_path, convert, frame_results>>
    /\ UNCHANGED <<policyVars, storeVars>>

\* line 329: the candidate is taken when its writer reports isOpened()
candidate_selected(outcome) == outcome = "opened"

\* lines 323-349 and 351-360: one pass of the codec trial loop.  The
\* VideoWriter constructor raises, or returns a writer that is not opened, or
\* one that is; an opened writer may still encode none of the frames given to
\* it (write() reports nothing).  A writer that does not open leaves no file.
TryCandidate ==
    /\ vpc = "codec"
    /\ \E outcome \in {"raised", "closed", "opened"}, acc \in BOOLEAN :
        /\ (outcome # "opened" => acc)
        /\ tried' = Append(tried, cand)
        /\ IF candidate_selected(outcome)
           THEN /\ writer' = [index |-> cand, opened |-> outcome = "opened", accepts |-> acc]
                /\ output_video_path' = video_formats[cand].path
                /\ vdisk' = PutFile(vdisk, video_formats[cand].path,
                                     [frames |-> 0, nonempty |-> FALSE])
                /\ frame_interval' = compute_frame_interval(video.fps)
                /\ vpc' = "loop"
                /\ UNCHANGED <<cand, vresult>>
           ELSE /\ IF cand < Len(video_formats)
                   THEN cand' = cand + 1 /\ UNCHANGED <<vpc, vresult>>
                   ELSE VideoFail /\ cand' = cand
                /\ UNCHANGED <<writer, output_video_path, vdisk, frame_interval>>
    /\ UNCHANGED <<video, frame_count, inferred, written, defect_frames, reopened,
                   convert, frame_results>>
    /\ UNCHANGED <<policyVars, storeVars>>

\* line 411: the annotated frame has the dimensions of the metadata
shape_ok(v) == <<v.width, v.height>> = FrameShape

\* A changed write_frame: a frame of the wrong dimensions is not written.
write_frame_drop_mismatch(out, count, kind, v) ==
    IF shape_ok(v) THEN Append(out, [frame |-> count, kind |-> kind]) ELSE out

\* lines 410-418: out.write of the annotated (or copied) frame, or of the
\* frame as read when the dimensions differ
write_frame(out, count, kind, v) ==
    Append(out, [frame |-> count, kind |-> IF shape_ok(v) THEN kind ELSE "original"])

\* lines 363-418: read one frame, infer or skip, write it
ReadFrame ==
    /\ vpc = "loop"
    /\ frame_count < video.frames
    /\ LET count == frame_count + 1
           emit(kind) == write_frame(written, count, kind, video)
       IN  /\ frame_count' = count
           /\ IF should_process(count, frame_interval)
              THEN \E n \in 0..MaxDefects :
                    /\ inferred' = inferred \cup {count}
                    /\ defect_frames' =
                          IF n > 0 THEN Append(defect_frames, [frame |-> count, defects |-> n])
                                   ELSE defect_frames
                    /\ written' = emit("annotated")
              ELSE /\ written' = emit("skipped")
                   /\ UNCHANGED <<inferred, defect_frames>>
           /\ vdisk' = IF writer.accepts
                         THEN [vdisk EXCEPT ![output_video_path].frames = @ + 1,
                                            ![output_video_path].nonempty = TRUE]
                         ELSE vdisk
    /\ UNCHANGED <<vpc, video, cand, tried, writer, frame_interval, reopened,
                   output_video_path, convert, frame_results, vresult>>
    /\ UNCHANGED <<policyVars, storeVars>>

\* lines 365-366 and 420-439: the stream ends; the writer is released and the
\* raw output is opened again.  Its frame count is read and printed, not tested.
EndOfStream ==
    /\ vpc = "loop"
    /\ frame_count = video.frames
    /\ \E opens_back \in BOOLEAN :
        IF Exists(vdisk, output_video_path) /\ opens_back
        THEN /\ reopened' = reopened \cup {output_video_path}
             /\ vpc' = "convert"
             /\ vresult' = vresult
        ELSE VideoFail /\ reopened' = reopened
    /\ UNCHANGED <<video, cand, tried, writer, frame_interval, frame_count, inferred,
                   written, defect_frames, vdisk, output_video_path, convert, frame_results>>
    /\ UNCHANGED <<policyVars, storeVars>>


(***************************************************************************)
(* _convert_to_h264_mp4, lines 182-270, by its outcomes.                   *)
(*   ffmpeg   "ok"       returncode 0: the function returns True           *)
(*            "failed"   returncode # 0: falls through to OpenCV           *)
(*            "timeout"  TimeoutExpired (or FileNotFoundError): caught at  *)
(*                       line 211, falls through to OpenCV                 *)
(*            "error"    any other exception of subprocess.run: leaves     *)
(*                       the function, caught at line 455                  *)
(*   opencv   "not_run", or "no_input" (line 219), "no_codec" (none of the *)
(*            three writers opens: returns False), "copied" (a writer      *)
(*            opened and the frames were copied: returns True)             *)
(*   nonempty whether the file left at the output path has size > 0        *)
(*   intact   whether the copy read all frames of the input; reading the   *)
(*            input may stop early when input and output are one file      *)
(***************************************************************************)
ConvertOutcomes(same_path) ==
    { o \in [ffmpeg : {"ok", "failed", "timeout", "error"},
             opencv : {"not_run", "no_input", "no_codec", "copied"},
             nonempty : BOOLEAN, intact : BOOLEAN] :
        /\ (o.ffmpeg \in {"ok", "error"} <=> o.opencv = "not_run")
        /\ (same_path => o.ffmpeg # "ok")
        /\ (o.opencv # "copied" => o.nonempty /\ o.intact)
        /\ (~same_path /\ o.nonempty => o.intact)
        /\ (~o.nonempty => ~o.intact) }

\* A changed convert_returns: only the external encoder counts as a conversion.
convert_returns_ffmpeg_only(o) == o.ffmpeg = "ok"

\* lines 205-207 and 257: what the function returns when it returns
convert_returns(o) == o.ffmpeg = "ok" \/ o.opencv = "copied"

\* the file the conversion leaves at output_path
convert_disk(disk, o, input_path, output_path) ==
    IF o.ffmpeg = "ok"
    THEN PutFile(disk, output_path, [frames |-> disk[input_path].frames, nonempty |-> TRUE])
    ELSE IF o.opencv = "copied"
    THEN PutFile(disk, output_path,
                 [frames |-> IF o.intact /\ o.nonempty THEN disk[input_path].frames ELSE 0,
                  nonempty |-> o.nonempty])
    ELSE disk

\* line 448: success and os.path.exists(...) and os.path.getsize(...) > 0
use_browser_video(o, disk) ==
    /\ o.ffmpeg # "error"
    /\ convert_returns(o)
    /\ Exists(disk, browser_video_path)
    /\ disk[browser_video_path].nonempty

\* lines 441-456
Transcode ==
    /\ vpc = "convert"
    /\ \E o \in ConvertOutcomes(output_video_path = browser_video_path) :
        LET disk == convert_disk(vdisk, o, output_video_path, browser_video_path)
        IN  /\ convert' = [ffmpeg |-> o.ffmpeg, opencv |-> o.opencv, raw |-> output_video_path]
            /\ vdisk' = disk
            /\ output_video_path' =
                  IF use_browser_video(o, disk) THEN browser_video_path ELSE output_video_path
    /\ vpc' = "summary"
    /\ UNCHANGED <<video, cand, tried, writer, frame_interval, frame_count, inferred,
                   written, defect_frames, reopened, frame_results, vresult>>
    /\ UNCHANGED <<policyVars, storeVars>>

MaxFrameResults == 20      \* line 519: defect_frames[:20]

RECURSIVE SumDefects(_)
\* line 384: total_defects, the detections of all processed frames
SumDefects(df) == IF df = <<>> THEN 0 ELSE df[1].defects + SumDefects(Tail(df))

\* lines 494-516
summary_result(v, interval, df, processed_path) ==
    LET processed == processed_frames(v.total_frames, interval)
        density   == defect_density(Len(df), processed)
    IN  [kind |-> "summary", status |-> density_status(density),
         total_frames |-> v.total_frames, processed_frames |-> processed,
         frames_with_defects |-> Len(df), total_defects |-> SumDefects(df),
         defect_density |-> density, frame_interval |-> interval,
         original |-> UploadPath, processed |-> processed_path]

\* lines 541-574
frame_result(frame_data) ==
    [kind |-> "frame", frameNumber |-> frame_data.frame,
     status |-> frame_status(frame_data.defects), total_defects |-> frame_data.defects]

\* A changed build_frame_results: every defect frame gets a result.
build_frame_results_uncapped(v, interval, df, processed_path) ==
    <<summary_result(v, interval, df, processed_path)>>
    \o [k \in 1..Len(df) |-> frame_result(df[k])]

\* lines 491-574: the summary first, then one result for each of the first
\* 20 defect frames
build_frame_results(v, interval, df, processed_path) ==
    LET kept == SubSeq(df, 1, Min(MaxFrameResults, Len(df)))
    IN  <<summary_result(v, interval, df, processed_path)>>
        \o [k \in 1..Len(kept) |-> frame_result(kept[k])]

\* lines 458-583: the list is built and returned
Finish ==
    /\ vpc = "summary"
    /\ frame_results' =
          build_frame_results(video, frame_interval, defect_frames, output_video_path)
    /\ vresult' = [status |-> frame_results'[1].status, error |-> FALSE]
    /\ vpc' = "done"
    /\ UNCHANGED <<video, cand, tried, writer, frame_interval, frame_count, inferred,
                   written, defect_frames, vdisk, reopened, output_video_path, convert>>
    /\ UNCHANGED <<policyVars, storeVars>>

VideoNext ==
    \/ StartVideo
    \/ TryCandidate
    \/ ReadFrame
    \/ EndOfStream
    \/ Transcode
    \/ Finish

SpecVideo == VideoInit /\ [][VideoNext]_vars


(***************************************************************************)
(* Claims about the video job, checked under SpecVideo.                    *)
(***************************************************************************)
Sampled == vpc \in {"loop", "convert", "summary", "done"}
\* An upload as a camera or an encoder produces it: positive frame rate, the
\* frame size of its metadata, a frame count that is the number delivered.
OrdinaryUpload ==
    /\ video # None
    /\ video.opens /\ video.fps > 0 /\ shape_ok(video)
    /\ video.frames > 0 /\ video.total_frames = video.frames
ProcessedVideo == frame_results[1].processed

\* C2: frame sampler.  frame_interval = max(1, floor(0.7 * fps)), at least 1
\* for every accepted fps; the frame with 1-based index i is inferred iff
\* (i - 1) mod frame_interval = 0, frame 1 always; every other frame is
\* passed through (skipped marker, or the original frame) without inference.
\* Stated for ordinary uploads.
C2_FrameSampler ==
    Sampled /\ OrdinaryUpload =>
        /\ frame_interval = Max(1, (7 * video.fps) \div 10)
        /\ frame_interval >= 1
        /\ \A i \in 1..frame_count :
                /\ (i \in inferred <=> (i - 1) % frame_interval = 0)
                /\ (i \notin inferred => written[i].kind \in {"skipped", "original"})
        /\ (frame_count >= 1 => 1 \in inferred)

C4_CodecChain ==
    OrdinaryUpload =>
    /\ \A k \in 1..Len(tried) : tried[k] = k
    /\ (writer # None =>
            /\ writer.opened /\ writer.accepts
            /\ Len(tried) = writer.index
            /\ Exists(vdisk, video_formats[writer.index].path)
            /\ (writer.index = 3 =>
                    /\ video_formats[3].container = "MP4"
                    /\ video_formats[3].codec = "MJPG"
                    /\ convert = None => output_video_path = "results/V_T_processed.mp4"))
    /\ (writer = None /\ Len(tried) = 3 =>
            /\ vpc = "error" /\ vresult.status = "ERROR"
            /\ \A q \in DOMAIN vdisk : q = UploadPath)

\* C5 as stated: when the external encoder succeeds the transcoded file is
\* the processed video of the summary; when it fails or times out the raw
\* file is; the job does not end in ERROR either way.
C5_RawOnEncoderFailure ==
    /\ (convert # None => vpc # "error")
    /\ (vpc = "done" =>
            /\ (convert.ffmpeg = "ok" => ProcessedVideo = browser_video_path)
            /\ (convert.ffmpeg # "ok" => ProcessedVideo = convert.raw)
            /\ vresult.status # "ERROR")

\* C5 as amended: the external encoder is tried once and, when it fails or
\* times out, an OpenCV re-encode to the same MP4 path; when either succeeds
\* and leaves a non-empty file that MP4 is the processed video of the
\* summary, otherwise the raw file is; the job does not end in ERROR.
C5_TranscodeOutcome ==
    /\ (convert # None => vpc # "error")
    /\ (vpc = "done" =>
            LET converted ==
                    \/ convert.ffmpeg = "ok"
                    \/ /\ convert.ffmpeg \in {"failed", "timeout"}
                       /\ convert.opencv = "copied"
                       /\ vdisk[browser_video_path].nonempty
            IN  /\ (converted => ProcessedVideo = browser_video_path)
                /\ (~converted => ProcessedVideo = convert.raw)
                /\ (convert.ffmpeg \in {"ok", "error"} <=> convert.opencv = "not_run")
                /\ vresult.status # "ERROR")

\* The encoder failed, the OpenCV re-encode succeeded, and the summary names
\* the MP4 instead of the raw AVI.
C5_Witness ==
    /\ vpc = "done"
    /\ convert.ffmpeg = "failed" /\ convert.opencv = "copied"
    /\ convert.raw = "results/V_T_processed.avi"
    /\ ProcessedVideo = browser_video_path

\* C6: output verification.  A job that returns a result other than ERROR has
\* re-opened the file it names as the processed video and found its frame
\* count positive.  Stated for ordinary uploads.
C6_OutputVerified ==
    vpc = "done" /\ OrdinaryUpload =>
        /\ ProcessedVideo \in reopened
        /\ vdisk[ProcessedVideo].frames > 0


(***************************************************************************)
(* Spec: the artifact store.  files maps the name of every file under      *)
(* uploads/ and results/ to its modification time; now is the clock, in    *)
(* seconds.  The handlers run on the threaded Flask server, so the steps   *)
(* of different requests interleave.                                       *)
(***************************************************************************)
SecondsPerMinute == 60          \* line 48
DefaultPreserveMinutes == 10    \* lines 40 and 810

\* lines 87-88, 110, 133, 284, 314, 578: {id}_{timestamp}{suffix}; the
\* timestamp is the clock to the second
FileName(dir, id, ts, suffix) == [dir |-> dir, id |-> id, ts |-> ts, suffix |-> suffix]

\* files left by earlier sessions, 15 and 5 minutes before the start
OldUpload == FileName("uploads", "OLD", 0 - 15 * SecondsPerMinute, ".jpg")
OldResult == FileName("results", "OLD", 0 - 5 * SecondsPerMinute, "_result.json")

Write(fs, names, t) == [q \in DOMAIN fs \cup names |-> IF q \in names THEN t ELSE fs[q]]
Remove(fs, names) == [q \in DOMAIN fs \ names |-> fs[q]]

\* line 48
sweep_cutoff(t, preserve_recent_minutes) == t - preserve_recent_minutes * SecondsPerMinute

\* A changed should_remove: a file exactly at the cutoff is removed too.
should_remove_inclusive(mtime, cutoff) == mtime <= cutoff

\* line 57
should_remove(mtime, cutoff) == mtime < cutoff

\* A changed sweep_victims: the pass stops after the first removal.
sweep_victims_first_only(fs, lk, cutoff) ==
    LET all == {q \in DOMAIN fs : q \notin lk /\ should_remove(fs[q], cutoff)}
    IN  IF all = {} THEN {} ELSE {CHOOSE q \in all : TRUE}

\* A changed sweep_victims: the first failing file ends the whole pass.
sweep_victims_abort_on_error(fs, lk, cutoff) ==
    IF lk \cap DOMAIN fs # {} THEN {}
    ELSE {q \in DOMAIN fs : should_remove(fs[q], cutoff)}

\* lines 50-61: the files of both directories that the pass removes; a file
\* whose getmtime or remove raises is skipped
sweep_victims(fs, lk, cutoff) ==
    {q \in DOMAIN fs : q \notin lk /\ should_remove(fs[q], cutoff)}

\* lines 40-64, with what the step leaves for observation in swept
\* (request and response are those of the caller's HTTP exchange; the
\* function itself returns nothing, lines 62-64)
cleanup_old_files(by, preserve_recent_minutes, progress, request, response) ==
    LET cutoff  == sweep_cutoff(now, preserve_recent_minutes)
        victims == sweep_victims(files, locked, cutoff)
    IN  /\ files' = Remove(files, victims)
        /\ swept' = [by |-> by, now |-> now, window |-> preserve_recent_minutes,
                     removed |-> Cardinality(victims),
                     progress |-> progress,
                     request |-> request, response |-> response,
                     prior |-> IF /\ swept # None
                                  /\ swept.now = now
                                  /\ swept.window = preserve_recent_minutes
                               THEN swept.removed ELSE -1]

\* lines 66-147, by the files written and the result returned
ImageOutcomes == {"pass", "fail", "unreadable", "detector_failed"}
image_files(pcb_id, ts, outcome) ==
    IF outcome = "unreadable" THEN {}
    ELSE IF outcome = "detector_failed" THEN {FileName("uploads", pcb_id, ts, ".jpg")}
    ELSE {FileName("uploads", pcb_id, ts, ".jpg"),
          FileName("results", pcb_id, ts, "_annotated.jpg"),
          FileName("results", pcb_id, ts, "_result.json")}
\* A changed image_result: a failed item is reported like a passed one, with
\* no error flag and no message.
image_result_unflagged(pcb_id, ts, outcome) ==
    [pcbId |-> pcb_id, status |-> IF outcome = "fail" THEN "FAIL" ELSE "PASS",
     timestamp |-> ts, error |-> FALSE,
     images |-> IF outcome \in {"unreadable", "detector_failed"} THEN {}
                ELSE {FileName("uploads", pcb_id, ts, ".jpg"),
                      FileName("results", pcb_id, ts, "_annotated.jpg")}]

\* lines 117-130 and 140-147
image_result(pcb_id, ts, outcome) ==
    IF outcome \in {"unreadable", "detector_failed"}
    THEN [pcbId |-> pcb_id, status |-> "ERROR", defectType |-> "Processing Error",
          timestamp |-> ts, error |-> TRUE, images |-> {}]
    ELSE [pcbId |-> pcb_id, status |-> IF outcome = "fail" THEN "FAIL" ELSE "PASS",
          timestamp |-> ts, error |-> FALSE,
          images |-> {FileName("uploads", pcb_id, ts, ".jpg"),
                      FileName("results", pcb_id, ts, "_annotated.jpg")}]

StoreInit ==
    /\ now = 0
    /\ files = [q \in {OldUpload, OldResult} |-> q.ts]
    /\ locked \in {{}, {OldUpload}}
    /\ requests = 0
    /\ bpc = "idle" /\ bN = 0 /\ bDone = 0 /\ bResults = <<>>
    /\ spc = "idle" /\ sFiles = None
    /\ swept = None
    /\ PolicyIdle /\ VideoIdle

\* the clock advances
Tick ==
    /\ now < MaxTicks * TickSeconds
    /\ now' = now + TickSeconds
    /\ swept' = None
    /\ UNCHANGED <<files, locked, requests, bpc, bN, bDone, bResults, spc, sFiles>>
    /\ UNCHANGED <<policyVars, videoVars>>

\* lines 601-622: inspect_pcb, one image
InspectImage ==
    /\ requests < MaxRequests
    /\ requests' = requests + 1
    /\ \E outcome \in ImageOutcomes :
          files' = Write(files, image_files("PCB-X", now, outcome), now)
    /\ swept' = None
    /\ UNCHANGED <<now, locked, bpc, bN, bDone, bResults, spc, sFiles>>
    /\ UNCHANGED <<policyVars, videoVars>>

\* lines 666-671: a batch request arrives
BatchStart ==
    /\ bpc = "idle"
    /\ requests < MaxRequests
    /\ requests' = requests + 1
    /\ \E n \in 1..MaxBatch : bN' = n
    /\ bDone' = 0 /\ bResults' = <<>> /\ bpc' = "items"
    /\ swept' = None
    /\ UNCHANGED <<now, files, locked, spc, sFiles>>
    /\ UNCHANGED <<policyVars, videoVars>>

\* line 674: pcb_id = f"PCB-{i+1:03d}", as a function of i + 1
batch_pcb_id(k) == <<"PCB-001", "PCB-002", "PCB-003", "PCB-004">>[k]

\* lines 672-676: the next file of the batch
BatchItem ==
    /\ bpc = "items"
    /\ bDone < bN
    /\ \E outcome \in ImageOutcomes :
        /\ files' = Write(files, image_files(batch_pcb_id(bDone + 1), now, outcome), now)
        /\ bResults' = Append(bResults, image_result(batch_pcb_id(bDone + 1), now, outcome))
    /\ bDone' = bDone + 1
    /\ swept' = None
    /\ UNCHANGED <<now, locked, requests, bpc, bN, spc, sFiles>>
    /\ UNCHANGED <<policyVars, videoVars>>

\* A changed batch_cleanup_due: the sweep runs before the first item.
batch_cleanup_first(done, n) == done = 0

\* lines 672-679: the sweep follows the loop over the files
batch_cleanup_due(done, n) == done = n

\* lines 678-679
BatchSweep ==
    /\ bpc = "items"
    /\ batch_cleanup_due(bDone, bN)
    /\ cleanup_old_files("batch", DefaultPreserveMinutes, <<bDone, bN>>, None, None)
    /\ bpc' = "respond"
    /\ UNCHANGED <<now, locked, requests, bN, bDone, bResults, spc, sFiles>>
    /\ UNCHANGED <<policyVars, videoVars>>

\* line 681: the results are returned
BatchRespond ==
    /\ bpc = "respond"
    /\ bpc' = "idle" /\ bN' = 0 /\ bDone' = 0 /\ bResults' = <<>>
    /\ swept' = None
    /\ UNCHANGED <<now, files, locked, requests, spc, sFiles>>
    /\ UNCHANGED <<policyVars, videoVars>>

\* lines 278-292: a video request saves its upload
VideoUpload ==
    /\ spc = "idle"
    /\ requests < MaxRequests
    /\ requests' = requests + 1
    /\ LET original == FileName("uploads", "VIDEO", now, ".mp4")
       IN  /\ files' = Write(files, {original}, now)
           /\ sFiles' = [ts |-> now, written |-> {original}]
    /\ spc' = "encode"
    /\ swept' = None
    /\ UNCHANGED <<now, locked, bpc, bN, bDone, bResults>>
    /\ UNCHANGED <<policyVars, videoVars>>

\* lines 295-456: the frames are read and the processed video is written
\* (or the job fails and returns an ERROR record)
VideoEncode ==
    /\ spc = "encode"
    /\ \E ok \in BOOLEAN :
        IF ok
        THEN LET processed == FileName("results", "VIDEO", sFiles.ts, "_processed.avi")
             IN  /\ files' = Write(files, {processed}, now)
                 /\ sFiles' = [sFiles EXCEPT !.written = @ \cup {processed}]
                 /\ spc' = "extract"
        ELSE /\ spc' = "respond"
             /\ sFiles' = [sFiles EXCEPT !.written = {}]
             /\ files' = files
    /\ swept' = None
    /\ UNCHANGED <<now, locked, requests, bpc, bN, bDone, bResults>>
    /\ UNCHANGED <<policyVars, videoVars>>

\* lines 490-583: the upload is opened again for each defect frame, the frame
\* images and the result records are written; the summary names the upload
\* and the processed video
VideoExtract ==
    /\ spc = "extract"
    /\ LET record == FileName("results", "VIDEO", sFiles.ts, "_result_000.json")
       IN  /\ files' = Write(files, {record}, now)
           /\ sFiles' = [sFiles EXCEPT !.written = @ \cup {record}]
    /\ spc' = "respond"
    /\ swept' = None
    /\ UNCHANGED <<now, locked, requests, bpc, bN, bDone, bResults>>
    /\ UNCHANGED <<policyVars, videoVars>>

\* line 649: the results are returned
VideoRespond ==
    /\ spc = "respond"
    /\ spc' = "idle" /\ sFiles' = None
    /\ swept' = None
    /\ UNCHANGED <<now, files, locked, requests, bpc, bN, bDone, bResults>>
    /\ UNCHANGED <<policyVars, videoVars>>

\* line 809-810: preserve_minutes of the request body, any integer; 10 when absent
PreserveValues == {0, DefaultPreserveMinutes}

\* line 809: the JSON body of the request, with or without preserve_minutes
CleanupBodies == {None} \cup {[preserve_minutes |-> m] : m \in PreserveValues}

\* line 810
preserve_of(body) == IF body = None THEN DefaultPreserveMinutes ELSE body.preserve_minutes

\* line 812: the JSON the endpoint returns
cleanup_response(preserve, t) ==
    [status |-> "cleaned", preserve_minutes |-> preserve, timestamp |-> t]

\* lines 802-814: the cleanup endpoint
CleanupRequest ==
    /\ \E body \in CleanupBodies :
          cleanup_old_files("cleanup", preserve_of(body), <<0, 0>>, body,
                            cleanup_response(preserve_of(body), now))
    /\ UNCHANGED <<now, locked, requests, bpc, bN, bDone, bResults, spc, sFiles>>
    /\ UNCHANGED <<policyVars, videoVars>>

Next ==
    \/ Tick
    \/ InspectImage
    \/ BatchStart
    \/ BatchItem
    \/ BatchSweep
    \/ BatchRespond
    \/ VideoUpload
    \/ VideoEncode
    \/ VideoExtract
    \/ VideoRespond
    \/ CleanupRequest

Spec == StoreInit /\ [][Next]_vars


(***************************************************************************)
(* Claims about the artifact store, checked under Spec.                    *)
(***************************************************************************)
\* the step is a run of cleanup_old_files
SweepStep == swept' # None

\* C7: a sweep at time now with a window of w minutes removes a file exactly
\* when its modification time is strictly before now - w minutes (a file
\* whose stat or removal fails is skipped), and never removes a file whose
\* modification time is at or after that cutoff.
C7_RetentionSweep ==
    [][SweepStep =>
        \A q \in DOMAIN files :
            LET old == files[q] < swept'.now - swept'.window * SecondsPerMinute
            IN  /\ q \notin DOMAIN files' => old
                /\ q \notin locked => (q \notin DOMAIN files' <=> old)
                /\ q \in DOMAIN files' => files'[q] = files[q]]_vars

\* a sweep with the window of 10 minutes has removed the file that was 15
\* minutes old and kept the one that was 5 minutes old
C7_Witness ==
    /\ swept # None
    /\ swept.window = DefaultPreserveMinutes /\ swept.now = 0 /\ swept.removed = 1
    /\ OldUpload \notin DOMAIN files
    /\ OldResult \in DOMAIN files

\* the files a batch in progress will return, and those a video job in
\* progress has written and returns
InFlightFiles ==
    (IF bpc \in {"items", "respond"}
     THEN UNION {bResults[k].images : k \in 1..Len(bResults)} ELSE {})
    \cup (IF spc \in {"encode", "extract", "respond"} THEN sFiles.written ELSE {})

\* C8: no sweep, by the batch or by the cleanup endpoint with any window,
\* removes a file that a job in progress has written and still uses or
\* returns.
C8_InFlightSurvive == InFlightFiles \subseteq DOMAIN files

\* C9: the batch request is the only request that runs the sweep, and its
\* sweep starts only after every item of the batch has been processed and
\* has its result.
C9_SweepOrdering ==
    /\ swept # None => swept.by \in {"batch", "cleanup"}
    /\ (swept # None /\ swept.by = "batch") =>
          /\ bpc = "respond"
          /\ swept.progress = <<bN, bN>>
          /\ bDone = bN /\ Len(bResults) = bN

\* the sweep of a batch of two has run, both items were processed and their
\* files were written before it
C9_Witness ==
    /\ swept # None /\ swept.by = "batch"
    /\ bN = 2 /\ Len(bResults) = 2
    /\ \A k \in 1..2 : ~bResults[k].error /\ bResults[k].images \subseteq DOMAIN files

\* C10: a sweep that immediately follows a sweep with the same clock value
\* and window, nothing written in between, removes no file.
C10_SweepIdempotent ==
    (swept # None /\ swept.prior >= 0) => swept.removed = 0

\* the second of two successive sweeps removed nothing after the first had
\* removed files
C10_Witness ==
    /\ swept # None
    /\ swept.prior > 0
    /\ swept.removed = 0


\* C11: the cleanup endpoint called without preserve_minutes sweeps with the
\* window of 10 minutes, and its response carries the number of files the
\* sweep removed.
C11_TriggerResult ==
    (swept # None /\ swept.by = "cleanup") =>
        /\ swept.request = None => swept.window = 10
        /\ "removed" \in DOMAIN swept.response
        /\ swept.response.removed = swept.removed


\* C12: when the stat or the removal of one file fails during a sweep, that
\* file is skipped and stays, every other file of both directories that is
\* older than the cutoff is still removed, and the caller goes on normally:
\* the batch returns its results, the endpoint answers "cleaned".
C12_CleanupErrorsContained ==
    [][SweepStep =>
        /\ \A q \in locked \cap DOMAIN files : q \in DOMAIN files'
        /\ \A q \in DOMAIN files \ locked :
              files[q] < sweep_cutoff(now, swept'.window) => q \notin DOMAIN files'
        /\ swept'.by = "batch" => (bpc' = "respond" /\ bResults' = bResults)
        /\ swept'.by = "cleanup" => swept'.response.status = "cleaned"]_vars

\* a sweep met the file of uploads/ that cannot be removed, left it, and
\* removed the old file of results/
C12_Witness ==
    /\ swept # None /\ swept.removed = 1
    /\ OldUpload \in locked /\ OldUpload \in DOMAIN files
    /\ files[OldUpload] < sweep_cutoff(swept.now, swept.window)
    /\ OldResult \notin DOMAIN files


\* the result of one item of the batch is an ERROR result with its message
\* and flag, or a normal result naming the images written for it
WellFormedItem(r, k) ==
    /\ r.pcbId = batch_pcb_id(k)
    /\ r.status \in {"PASS", "FAIL", "ERROR"}
    /\ r.status = "ERROR" =>
          (r.error /\ r.defectType = "Processing Error" /\ r.images = {})
    /\ r.status # "ERROR" =>
          /\ ~r.error
          /\ r.images = {FileName("uploads", r.pcbId, r.timestamp, ".jpg"),
                          FileName("results", r.pcbId, r.timestamp, "_annotated.jpg")}

\* C13: a batch of n files returns exactly n results in input order; an item
\* whose processing fails yields an ERROR result with a message and the
\* error flag, and the items before and after it are processed and reported
\* as they would be alone: a step of the batch appends one result, changes no
\* earlier result, and writes the images of a normal item whatever happened
\* to the items before it.
C13_BatchIsolation ==
    /\ [](bpc \in {"items", "respond"} =>
            /\ Len(bResults) = bDone
            /\ bpc = "respond" => bDone = bN
            /\ \A k \in 1..Len(bResults) : WellFormedItem(bResults[k], k))
    /\ [][(bpc = "items" /\ bDone' # bDone) =>
            /\ bDone' = bDone + 1 /\ bDone' <= bN
            /\ SubSeq(bResults', 1, bDone) = bResults
            /\ bResults'[bDone'].status # "ERROR" =>
                  bResults'[bDone'].images \subseteq DOMAIN files']_vars

\* a batch of two is answered: the first item failed, the second was
\* processed and its images are there
C13_Witness ==
    /\ bpc = "respond" /\ bN = 2 /\ Len(bResults) = 2
    /\ bResults[1].status = "ERROR" /\ bResults[1].error
    /\ bResults[2].status \in {"PASS", "FAIL"}
    /\ bResults[2].images \subseteq DOMAIN files


\* C14: a video that cannot be opened, or whose metadata reports fps <= 0,
\* width <= 0 or height <= 0, is rejected before any frame is processed and
\* leaves no file behind.
C14_InvalidVideoRejected ==
    (/\ video # None
     /\ (~video.opens \/ video.fps <= 0 \/ video.width <= 0 \/ video.height <= 0)) =>
        /\ vpc = "error"
        /\ vresult.status = "ERROR"
        /\ frame_count = 0 /\ inferred = {}
        /\ DOMAIN vdisk = {}


(***************************************************************************)
(* SpecNames: the names under which two requests write their artifacts.    *)
(* A request is an image inspection, a video job with one defect frame, or *)
(* a call of the extract-frame endpoint; its id is the caller's, its       *)
(* timestamp the clock to the second.                                      *)
(***************************************************************************)
\* lines 521, 536, 774: {video_id}_frame_{n}{suffix}, no timestamp
FrameFile(id, n, suffix) == [dir |-> "results", id |-> id, frame |-> n, suffix |-> suffix]

\* lines 284, 314-316, 442, 521, 536, 578: the files of a video job whose
\* one defect frame is frame n
video_files(video_id, ts, n) ==
    {FileName("uploads", video_id, ts, ".mp4"),
     FileName("results", video_id, ts, "_processed.avi"),
     FileName("results", video_id, ts, "_processed.mp4"),
     FrameFile(video_id, n, ".jpg"),
     FrameFile(video_id, n, "_original.jpg"),
     FileName("results", video_id, ts, "_result_000.json"),
     FileName("results", video_id, ts, "_result_001.json")}

\* lines 774-776
extract_frame_files(video_id, n) == {FrameFile(video_id, n, ".jpg")}

artifact_names(w) ==
    IF w.kind = "image" THEN image_files(w.id, w.second, "pass")
    ELSE IF w.kind = "video" THEN video_files(w.id, w.second, w.frame)
    ELSE extract_frame_files(w.id, w.frame)

NameRequests ==
    [kind : {"image", "video", "extract"}, id : {"A", "B"},
     second : 0..MaxNameSeconds, frame : 1..MaxFrameNo]

NamesInit ==
    /\ polIn \in [first : NameRequests, second : NameRequests]
    /\ polOut = None
    /\ VideoIdle /\ StoreIdle

\* the two requests run and write their files
WriteArtifacts ==
    /\ polOut = None
    /\ polOut' = [first |-> artifact_names(polIn.first),
                  second |-> artifact_names(polIn.second)]
    /\ UNCHANGED <<polIn, videoVars, storeVars>>

NamesNext == WriteArtifacts

SpecNames == NamesInit /\ [][NamesNext]_vars

\* C15: two artifact writes made within the retention window never go to
\* the same file name, so no file is overwritten after it is first written.
C15_NamesNeverCollide ==
    polOut # None => polOut.first \cap polOut.second = {}


\* the result records that a step writes
RecordsWritten ==
    {q \in DOMAIN files' : q.suffix = "_result.json" /\ q \notin DOMAIN files}

\* C16: every image inspection that returns a verdict, an ERROR verdict
\* included, writes exactly one JSON result record, the one named after its
\* id and timestamp.
C16_OneRecordPerVerdict ==
    [][(bpc = "items" /\ bDone' = bDone + 1) =>
        LET r == bResults'[bDone']
        IN  RecordsWritten = {FileName("results", r.pcbId, r.timestamp, "_result.json")}]_vars


(***************************************************************************)
(* SpecResults: the result list of a video job as a function of what the   *)
(* detector returned for its processed frames.  The k-th processed frame   *)
(* is frame 1 + (k - 1) * interval and has detections(k) detections.       *)
(***************************************************************************)
\* the detector's answers: constant (step 0) or cycling through 0..MaxDefects
detections(inp, k) == (inp.step * k + inp.base) % (MaxDefects + 1)

\* lines 363-392: the defect frames the loop collects from the first n
\* processed frames, in the order of reading
RECURSIVE collect_defect_frames(_, _)

collect_defect_frames(inp, n) ==
    IF n = 0 THEN <<>>
    ELSE LET before == collect_defect_frames(inp, n - 1)
         IN  IF detections(inp, n) > 0
             THEN Append(before, [frame |-> 1 + (n - 1) * inp.frame_interval,
                                  defects |-> detections(inp, n)])
             ELSE before

ResultInputs ==
    [processed : 0..MaxProcessed, frame_interval : 1..2,
     step : 0..1, base : 0..MaxDefects]

ResultsInit ==
    /\ polIn \in ResultInputs
    /\ polOut = None
    /\ VideoIdle /\ StoreIdle

BuildResults ==
    /\ polOut = None
    /\ polOut' = [results |-> build_frame_results(
                    [total_frames |-> polIn.processed * polIn.frame_interval],
                    polIn.frame_interval,
                    collect_defect_frames(polIn, polIn.processed),
                    browser_video_path)]
    /\ UNCHANGED <<polIn, videoVars, storeVars>>

ResultsNext == BuildResults

SpecResults == ResultsInit /\ [][ResultsNext]_vars

\* the numbers of the processed frames with at least one detection
DefectFrameNumbers ==
    {1 + (k - 1) * polIn.frame_interval :
        k \in {j \in 1..polIn.processed : detections(polIn, j) > 0}}

\* C17: the returned list is the summary followed by one sub-verdict for
\* each of the first 20 processed frames with at least one detection, in
\* ascending frame order, 1 + min(20, framesWithDefects) entries in all,
\* while the summary counts every frame with defects.
C17_BoundedSubVerdicts ==
    polOut # None =>
        LET fwd == Cardinality(DefectFrameNumbers)
        IN  /\ Len(polOut.results) = 1 + (IF fwd < 20 THEN fwd ELSE 20)
            /\ polOut.results[1].kind = "summary"
            /\ polOut.results[1].frames_with_defects = fwd
            /\ \A j \in 2..Len(polOut.results) :
                  /\ polOut.results[j].kind = "frame"
                  /\ polOut.results[j].frameNumber \in DefectFrameNumbers
                  /\ polOut.results[j].total_defects >= 1
                  /\ Cardinality({f \in DefectFrameNumbers : f < polOut.results[j].frameNumber}) = j - 2

\* 22 frames had defects: the list is the summary and 20 sub-verdicts
C17_Witness ==
    /\ polOut # None
    /\ Cardinality(DefectFrameNumbers) = 22
    /\ Len(polOut.results) = 21
    /\ polOut.results[1].frames_with_defects = 22


\* C18: for every completed video job the defect density lies in [0, 1]:
\* whatever frame count the metadata reports, the frames with defects are
\* no more than the processed frames.
C18_DensityRange ==
    (vpc = "done" /\ video.fps > 0 /\ shape_ok(video)) =>
        LET m == frame_results[1]
        IN  /\ 0 <= m.defect_density[1]
            /\ m.defect_density[1] <= m.defect_density[2]
            /\ m.processed_frames > 0 => m.frames_with_defects <= m.processed_frames


(***************************************************************************)
(* SpecImage: the verdict of process_pcb_image as a function of the boxes  *)
(* the detector returned.  A box is its class id and its confidence in     *)
(* units of 1/10000; a defect carries the confidence rounded to 1/1000.    *)
(***************************************************************************)
\* lines 14-23 and 164: class_names.get(class_id, f'unknown_{class_id}')
class_name(class_id) ==
    CASE class_id = 0 -> "falsecopper"
      [] class_id = 1 -> "missinghole"
      [] class_id = 2 -> "mousebite"
      [] class_id = 3 -> "opencircuit"
      [] class_id = 4 -> "pinhole"
      [] class_id = 5 -> "scratch"
      [] class_id = 6 -> "shortcircuit"
      [] class_id = 7 -> "spur"
      [] class_id = 8 -> "unknown_8"
      [] class_id = 9 -> "unknown_9"
      [] class_id = 10 -> "unknown_10"
      [] OTHER -> "unknown_n"

\* line 165: round(confidence, 3), for confidences whose fifth digit is not
\* a 5 (the raw confidences below), from 1/10000 to 1/1000
round_confidence(c) == (c + 5) \div 10

\* lines 151-170, type and confidence of each defect, in the order of the boxes
extract_defect_details(boxes) ==
    [k \in 1..Len(boxes) |->
        [type |-> class_name(boxes[k].cls), confidence |-> round_confidence(boxes[k].conf)]]

\* line 180: .replace('_', ' ').title()
display_form(type) ==
    CASE type = "falsecopper" -> "Falsecopper"
      [] type = "missinghole" -> "Missinghole"
      [] type = "mousebite" -> "Mousebite"
      [] type = "opencircuit" -> "Opencircuit"
      [] type = "pinhole" -> "Pinhole"
      [] type = "scratch" -> "Scratch"
      [] type = "shortcircuit" -> "Shortcircuit"
      [] type = "spur" -> "Spur"
      [] type = "unknown_8" -> "Unknown 8"
      [] type = "unknown_9" -> "Unknown 9"
      [] type = "unknown_10" -> "Unknown 10"
      [] OTHER -> "Unknown N"

\* line 179: max(defects, key=confidence) keeps the element it holds unless a
\* later one is strictly greater
RECURSIVE max_by_confidence(_, _)

max_by_confidence(best, rest) ==
    IF rest = <<>> THEN best
    ELSE max_by_confidence(IF rest[1].confidence > best.confidence THEN rest[1] ELSE best,
                           Tail(rest))

\* A changed get_primary_defect: of several defects with the highest
\* confidence the last one is taken.
RECURSIVE max_by_confidence_last(_, _)

max_by_confidence_last(best, rest) ==
    IF rest = <<>> THEN best
    ELSE max_by_confidence_last(IF rest[1].confidence >= best.confidence THEN rest[1] ELSE best,
                                Tail(rest))

get_primary_defect_last(defects) ==
    IF defects = <<>> THEN "None"
    ELSE display_form(max_by_confidence_last(defects[1], Tail(defects)).type)

\* lines 172-180
get_primary_defect(defects) ==
    IF defects = <<>> THEN "None"
    ELSE display_form(max_by_confidence(defects[1], Tail(defects)).type)

\* A changed image_verdict: one detection alone does not fail the board.
image_verdict_lenient(inp) ==
    IF ~inp.boxes_none /\ Len(inp.boxes) > 1
    THEN [status |-> "FAIL", defects_detected |-> extract_defect_details(inp.boxes),
          defectType |-> get_primary_defect(extract_defect_details(inp.boxes)),
          total_defects |-> Len(inp.boxes)]
    ELSE [status |-> "PASS", defects_detected |-> <<>>, defectType |-> "None",
          total_defects |-> 0]

\* lines 95-106 and 117-125
image_verdict(inp) ==
    IF ~inp.boxes_none /\ Len(inp.boxes) > 0
    THEN LET defects_found == extract_defect_details(inp.boxes)
         IN  [status |-> "FAIL", defects_detected |-> defects_found,
              defectType |-> get_primary_defect(defects_found),
              total_defects |-> Len(defects_found)]
    ELSE [status |-> "PASS", defects_detected |-> <<>>, defectType |-> "None",
          total_defects |-> 0]

BoxClasses == {5, 6, 9}
RawConfidences == {3000, 9001, 9004, 9100}
Boxes == [cls : BoxClasses, conf : RawConfidences]

\* results[0].boxes: None, or a sequence of boxes
ImageInputs ==
    {[boxes_none |-> TRUE, boxes |-> <<>>]}
    \cup UNION {{[boxes_none |-> FALSE, boxes |-> b] : b \in [1..n -> Boxes]} : n \in 0..MaxBoxes}

ImageInit ==
    /\ polIn \in ImageInputs
    /\ polOut = None
    /\ VideoIdle /\ StoreIdle

ComputeImageVerdict ==
    /\ polOut = None
    /\ polOut' = image_verdict(polIn)
    /\ UNCHANGED <<polIn, videoVars, storeVars>>

ImageNext == ComputeImageVerdict

SpecImage == ImageInit /\ [][ImageNext]_vars

\* the number of detections the detector returned
DetectionCount == IF polIn.boxes_none THEN 0 ELSE Len(polIn.boxes)

\* C19: the status of an image is FAIL exactly when the detector returned at
\* least one detection and PASS exactly when it returned none; with no
\* detection primaryDefect is "None" and the detection list is empty.
C19_BinaryPolicy ==
    polOut # None =>
        /\ polOut.status = "FAIL" <=> DetectionCount >= 1
        /\ polOut.status = "PASS" <=> DetectionCount = 0
        /\ DetectionCount = 0 =>
              (polOut.defectType = "None" /\ polOut.defects_detected = <<>>)
        /\ Len(polOut.defects_detected) = DetectionCount

\* one scratch of confidence 0.91 was detected: FAIL, primaryDefect Scratch
C19_Witness ==
    /\ polOut # None
    /\ polIn.boxes = <<[cls |-> 5, conf |-> 9100]>>
    /\ polOut.status = "FAIL" /\ polOut.defectType = "Scratch"

\* the position of the first defect whose confidence no defect exceeds
FirstMaximal(defects) ==
    CHOOSE k \in 1..Len(defects) :
        /\ \A j \in 1..Len(defects) : defects[j].confidence <= defects[k].confidence
        /\ \A j \in 1..(k - 1) : defects[j].confidence < defects[k].confidence

\* C20: for a non-empty detection sequence primaryDefect is the type of the
\* detection with the maximum confidence, the first of them in input order
\* when several share it, with underscores replaced by spaces and
\* title-cased.
C20_PrimaryDefect ==
    (polOut # None /\ DetectionCount >= 1) =>
        LET defects == polOut.defects_detected
            type    == defects[FirstMaximal(defects)].type
        IN  /\ polOut.defectType = display_form(type)
            /\ type = "scratch" => polOut.defectType = "Scratch"
            /\ type = "shortcircuit" => polOut.defectType = "Shortcircuit"
            /\ type = "unknown_9" => polOut.defectType = "Unknown 9"

\* three detections, the last two sharing the highest confidence: the
\* earlier of the two gives the primary defect
C20_Witness ==
    /\ polOut # None
    /\ Len(polOut.defects_detected) = 3
    /\ polOut.defects_detected[1] = [type |-> "scratch", confidence |-> 300]
    /\ polOut.defects_detected[2] = [type |-> "unknown_9", confidence |-> 910]
    /\ polOut.defects_detected[3] = [type |-> "shortcircuit", confidence |-> 910]
    /\ polOut.defectType = "Unknown 9"


(***************************************************************************)
(* SpecVideoPrimary: the overall primary defect of a video as a function   *)
(* of all_defects, the defects of all processed frames in reading order.   *)
(***************************************************************************)
\* lines 478-483: the keys of defect_types, in the order of first appearance
RECURSIVE defect_type_keys(_)

defect_type_keys(all) ==
    IF all = <<>> THEN <<>>
    ELSE LET before == defect_type_keys(SubSeq(all, 1, Len(all) - 1))
             t      == all[Len(all)].type
         IN  IF \E k \in 1..Len(before) : before[k] = t THEN before ELSE Append(before, t)

\* lines 478-483: len and sum of defect_types[t], confidences in 1/1000
RECURSIVE type_stats(_, _)

type_stats(all, t) ==
    IF all = <<>> THEN [count |-> 0, sum |-> 0]
    ELSE LET rest == type_stats(Tail(all), t)
         IN  IF all[1].type = t
             THEN [count |-> rest.count + 1, sum |-> rest.sum + all[1].confidence]
             ELSE rest

\* line 487: the key (len, sum / len) of one type is greater than that of
\* another; the averages are compared as fractions
key_greater(a, b) ==
    \/ a.count > b.count
    \/ a.count = b.count /\ a.sum * b.count > b.sum * a.count

\* line 486: max over the keys keeps the type it holds unless a later one
\* has a strictly greater key
RECURSIVE max_by_key(_, _, _)

max_by_key(all, best, rest) ==
    IF rest = <<>> THEN best
    ELSE max_by_key(all,
                    IF key_greater(type_stats(all, rest[1]), type_stats(all, best))
                    THEN rest[1] ELSE best,
                    Tail(rest))

\* A changed video_primary_defect: the type of the single most confident
\* detection, as for an image.
video_primary_defect_as_image(all) == get_primary_defect(all)

\* lines 475-488
video_primary_defect(all) ==
    IF all = <<>> THEN "None"
    ELSE LET keys == defect_type_keys(all)
         IN  display_form(max_by_key(all, keys[1], Tail(keys)))

DefectTypes == {"scratch", "spur", "unknown_9"}
DefectConfidences == {300, 900, 910}
AllDefectsInputs ==
    UNION {[1..n -> [type : DefectTypes, confidence : DefectConfidences]] : n \in 0..MaxAllDefects}

VideoPrimaryInit ==
    /\ polIn \in {[all_defects |-> a] : a \in AllDefectsInputs}
    /\ polOut = None
    /\ VideoIdle /\ StoreIdle

ComputeVideoPrimary ==
    /\ polOut = None
    /\ polOut' = [primary_defect |-> video_primary_defect(polIn.all_defects)]
    /\ UNCHANGED <<polIn, videoVars, storeVars>>

VideoPrimaryNext == ComputeVideoPrimary

SpecVideoPrimary == VideoPrimaryInit /\ [][VideoPrimaryNext]_vars

\* occurrences of a type among all detections, and the sum of their
\* confidences
Occurrences(t) == {k \in 1..Len(polIn.all_defects) : polIn.all_defects[k].type = t}

RECURSIVE SumConfidence(_)

SumConfidence(ks) ==
    IF ks = {} THEN 0
    ELSE LET k == CHOOSE j \in ks : TRUE
         IN  polIn.all_defects[k].confidence + SumConfidence(ks \ {k})

\* C21: the overall primary defect of a video is the type that occurs most
\* often among all detections of all processed frames; of types that occur
\* equally often it is one with the highest average confidence; it is
\* "None" when there is no detection.
C21_VideoPrimaryDefect ==
    polOut # None =>
        IF polIn.all_defects = <<>> THEN polOut.primary_defect = "None"
        ELSE \E t \in DefectTypes :
                /\ Occurrences(t) # {}
                /\ polOut.primary_defect = display_form(t)
                /\ \A u \in DefectTypes :
                      \/ Cardinality(Occurrences(u)) < Cardinality(Occurrences(t))
                      \/ /\ Cardinality(Occurrences(u)) = Cardinality(Occurrences(t))
                         /\ SumConfidence(Occurrences(u)) <= SumConfidence(Occurrences(t))

\* two weak scratches and one strong spur: the more frequent type wins
C21_Witness ==
    /\ polOut # None
    /\ polIn.all_defects = << [type |-> "scratch", confidence |-> 300],
                              [type |-> "spur", confidence |-> 910],
                              [type |-> "scratch", confidence |-> 300] >>
    /\ polOut.primary_defect = "Scratch"


(***************************************************************************)
(* SpecEnsemble: calculate_ensemble_score and the classification of        *)
(* classify_pcb as functions of a metrics record.  avg_confidence is in    *)
(* 1/100, area_coverage_ratio in 1/1000.  Sub-scores and weights are       *)
(* multiples of 0.5 and are kept in halves, so a score is kept in quarters *)
(* (every product and sum is exact in binary floating point).              *)
(***************************************************************************)
\* lines 24-29, in halves
weights ==
    [high_conf_detections |-> 6, detection_density |-> 4,
     avg_confidence |-> 3, defect_area_coverage |-> 5]

\* lines 135-143, in halves
high_conf_score(metrics) ==
    IF metrics.high_conf_count >= 5 THEN 8
    ELSE IF metrics.high_conf_count >= 3 THEN 6
    ELSE IF metrics.high_conf_count >= 1 THEN 3
    ELSE 0

\* lines 150-158, in halves
density_score(metrics) ==
    IF metrics.total_detection_count >= 15 THEN 6
    ELSE IF metrics.total_detection_count >= 8 THEN 4
    ELSE IF metrics.total_detection_count >= 4 THEN 2
    ELSE 0

\* lines 165-173, in halves
conf_score(metrics) ==
    IF metrics.avg_confidence >= 70 THEN 5
    ELSE IF metrics.avg_confidence >= 50 THEN 3
    ELSE IF metrics.avg_confidence >= 30 THEN 1
    ELSE 0

\* lines 180-188, in halves
area_score(metrics) ==
    IF metrics.area_coverage_ratio >= 50 THEN 8
    ELSE IF metrics.area_coverage_ratio >= 20 THEN 4
    ELSE IF metrics.area_coverage_ratio >= 10 THEN 2
    ELSE 0

\* A changed calculate_ensemble_score: the weights of the first two
\* components are exchanged.
calculate_ensemble_score_swapped(metrics) ==
    high_conf_score(metrics) * weights.detection_density
    + density_score(metrics) * weights.high_conf_detections
    + conf_score(metrics) * weights.avg_confidence
    + area_score(metrics) * weights.defect_area_coverage

\* lines 122-200, in quarters
calculate_ensemble_score(metrics) ==
    high_conf_score(metrics) * weights.high_conf_detections
    + density_score(metrics) * weights.detection_density
    + conf_score(metrics) * weights.avg_confidence
    + area_score(metrics) * weights.defect_area_coverage

\* A changed classification: a score on a boundary falls in the upper class.
classification_upper(ensemble_score) ==
    IF ensemble_score < 8 THEN [classification |-> "GOOD PCB", confidence |-> 95]
    ELSE IF ensemble_score < 20 THEN [classification |-> "QUESTIONABLE PCB", confidence |-> 75]
    ELSE IF ensemble_score < 40 THEN [classification |-> "DEFECTIVE PCB", confidence |-> 85]
    ELSE [classification |-> "SEVERELY DEFECTIVE PCB", confidence |-> 95]

\* lines 216-231: the score in quarters (2.0, 5.0, 10.0 are 8, 20, 40), the
\* confidence in 1/100
classification(ensemble_score) ==
    IF ensemble_score <= 8 THEN [classification |-> "GOOD PCB", confidence |-> 95]
    ELSE IF ensemble_score <= 20 THEN [classification |-> "QUESTIONABLE PCB", confidence |-> 75]
    ELSE IF ensemble_score <= 40 THEN [classification |-> "DEFECTIVE PCB", confidence |-> 85]
    ELSE [classification |-> "SEVERELY DEFECTIVE PCB", confidence |-> 95]

MetricsInputs ==
    [high_conf_count : 0..MaxHighConfCount,
     total_detection_count : 0..MaxTotalDetections,
     avg_confidence : {0, 29, 30, 49, 50, 69, 70, 80, 100},
     area_coverage_ratio : {0, 9, 10, 19, 20, 49, 50, 60}]

EnsembleInit ==
    /\ polIn \in MetricsInputs
    /\ polOut = None
    /\ VideoIdle /\ StoreIdle

\* lines 202-261, after the metrics are extracted
ClassifyPcb ==
    /\ polOut = None
    /\ LET ensemble_score == calculate_ensemble_score(polIn)
           class == classification(ensemble_score)
       IN  polOut' = [classification |-> class.classification,
                      confidence |-> class.confidence,
                      ensemble_score |-> ensemble_score]
    /\ UNCHANGED <<polIn, videoVars, storeVars>>

EnsembleNext == ClassifyPcb

SpecEnsemble == EnsembleInit /\ [][EnsembleNext]_vars

\* the weighted staircase of one component, in quarters of a point
Staircase(x, t3, t2, t1, v3, v2, v1) ==
    IF x >= t3 THEN v3 ELSE IF x >= t2 THEN v2 ELSE IF x >= t1 THEN v1 ELSE 0

\* C22: the ensemble score is the sum of the four weighted staircases:
\* highConfCount >=5: 4.0, >=3: 3.0, >=1: 1.5 times 3.0; totalDetectionCount
\* >=15: 3.0, >=8: 2.0, >=4: 1.0 times 2.0; avgConfidence >=0.7: 2.5,
\* >=0.5: 1.5, >=0.3: 0.5 times 1.5; areaCoverageRatio >=0.05: 4.0,
\* >=0.02: 2.0, >=0.01: 1.0 times 2.5.  In quarters: all-zero metrics give
\* 0 and (5, 15, 0.8, 0.06) gives 127, that is 31.75.
C22_EnsembleScore ==
    polOut # None =>
        /\ polOut.ensemble_score =
              Staircase(polIn.high_conf_count, 5, 3, 1, 48, 36, 18)
              + Staircase(polIn.total_detection_count, 15, 8, 4, 24, 16, 8)
              + Staircase(polIn.avg_confidence, 70, 50, 30, 15, 9, 3)
              + Staircase(polIn.area_coverage_ratio, 50, 20, 10, 40, 20, 10)
        /\ (polIn.high_conf_count = 0 /\ polIn.total_detection_count = 0
            /\ polIn.avg_confidence = 0 /\ polIn.area_coverage_ratio = 0)
              => polOut.ensemble_score = 0
        /\ (polIn.high_conf_count = 5 /\ polIn.total_detection_count = 15
            /\ polIn.avg_confidence = 80 /\ polIn.area_coverage_ratio = 60)
              => polOut.ensemble_score = 127

\* the metrics (5, 15, 0.8, 0.06) were scored 31.75
C22_Witness ==
    /\ polOut # None
    /\ polIn = [high_conf_count |-> 5, total_detection_count |-> 15,
                avg_confidence |-> 80, area_coverage_ratio |-> 60]
    /\ polOut.ensemble_score = 127

\* C23: every score has exactly one class and its fixed confidence: up to
\* 2.0 GOOD with 0.95, above 2.0 up to 5.0 QUESTIONABLE with 0.75, above 5.0
\* up to 10.0 DEFECTIVE with 0.85, above 10.0 SEVERELY DEFECTIVE with 0.95;
\* the scores 2.0, 5.0 and 10.0 fall in the lower class.
C23_EnsembleClass ==
    polOut # None =>
        LET q == polOut.ensemble_score
            c == <<polOut.classification, polOut.confidence>>
        IN  /\ q <= 8 <=> c = <<"GOOD PCB", 95>>
            /\ (8 < q /\ q <= 20) <=> c = <<"QUESTIONABLE PCB", 75>>
            /\ (20 < q /\ q <= 40) <=> c = <<"DEFECTIVE PCB", 85>>
            /\ q > 40 <=> c = <<"SEVERELY DEFECTIVE PCB", 95>>

\* a score of exactly 5.0 was classified QUESTIONABLE
C23_Witness ==
    /\ polOut # None
    /\ polOut.ensemble_score = 20
    /\ polOut.classification = "QUESTIONABLE PCB" /\ polOut.confidence = 75


(***************************************************************************)
(* SpecNormalizer: _extract_defect_details as a function of the boxes of   *)
(* one detector call.  A raw box has its class id, its confidence in       *)
(* 1/10000 and its corners x1, y1, x2, y2 in 1/100 pixel, as the detector  *)
(* reports them: confidence in [0, 1], x1 <= x2, y1 <= y2.  A defect has   *)
(* the confidence in 1/1000, the corners and the area in 1/10.             *)
(***************************************************************************)
\* line 166: round(coord, 1), from 1/100 to 1/10 (no raw corner below ends in 5)
round_coord(c) == (c + 5) \div 10

\* line 167: round((x2-x1) * (y2-y1), 1), from 1/10000 to 1/10
round_area(a) == (a + 500) \div 1000

\* A changed defect_of: the corners are rounded towards the inside of the box.
defect_of_inward(box) ==
    [type |-> class_name(box.cls),
     confidence |-> round_confidence(box.conf),
     bbox |-> << (box.xyxy[1] + 9) \div 10, (box.xyxy[2] + 9) \div 10,
                 box.xyxy[3] \div 10, box.xyxy[4] \div 10 >>,
     area |-> round_area((box.xyxy[3] - box.xyxy[1]) * (box.xyxy[4] - box.xyxy[2]))]

\* lines 159-168: the defect of one box
defect_of(box) ==
    [type |-> class_name(box.cls),
     confidence |-> round_confidence(box.conf),
     bbox |-> [k \in 1..4 |-> round_coord(box.xyxy[k])],
     area |-> round_area((box.xyxy[3] - box.xyxy[1]) * (box.xyxy[4] - box.xyxy[2]))]

\* A changed extract_defects: boxes of a class outside the taxonomy are dropped.
extract_defects_known_only(boxes) ==
    LET known == SelectSeq(boxes, LAMBDA b : b.cls <= 7)
    IN  [k \in 1..Len(known) |-> defect_of(known[k])]

\* lines 151-170, every field of every defect
extract_defects(boxes) == [k \in 1..Len(boxes) |-> defect_of(boxes[k])]

\* what the detector reports besides the class: a wide box of low
\* confidence, a box 0.02 pixel wide, a box of no width and confidence 0.9996
RawShapes ==
    { [conf |-> 2500, xyxy |-> <<0, 0, 104, 106>>],
      [conf |-> 9004, xyxy |-> <<104, 104, 106, 2001>>],
      [conf |-> 9996, xyxy |-> <<106, 0, 106, 2001>>] }

RawBoxes == {[cls |-> c, conf |-> g.conf, xyxy |-> g.xyxy] : c \in 0..MaxClassId, g \in RawShapes}

NormalizerInit ==
    /\ polIn \in {[boxes |-> b] : b \in UNION {[1..n -> RawBoxes] : n \in 0..MaxRawBoxes}}
    /\ polOut = None
    /\ VideoIdle /\ StoreIdle

Normalize ==
    /\ polOut = None
    /\ polOut' = [defects |-> extract_defects(polIn.boxes)]
    /\ UNCHANGED <<polIn, videoVars, storeVars>>

NormalizerNext == Normalize

SpecNormalizer == NormalizerInit /\ [][NormalizerNext]_vars

\* C24: every Detection the normalizer produces has its confidence in
\* [0, 1] and a bounding box with x1 <= x2 and y1 <= y2, hence an area that
\* is not negative.
C24_DetectionConstraints ==
    polOut # None =>
        \A k \in 1..Len(polOut.defects) :
            LET d == polOut.defects[k]
            IN  /\ 0 <= d.confidence /\ d.confidence <= 1000
                /\ d.bbox[1] <= d.bbox[3]
                /\ d.bbox[2] <= d.bbox[4]
                /\ d.area >= 0

\* a box from x 1.04 to 1.06 became a box from 1.0 to 1.1, and a box of no
\* width kept x1 = x2 while its confidence 0.9996 became 1.0
C24_Witness ==
    /\ polOut # None /\ Len(polOut.defects) = 2
    /\ polOut.defects[1].bbox = <<10, 10, 11, 200>>
    /\ polOut.defects[2].confidence = 1000
    /\ polOut.defects[2].bbox[1] = polOut.defects[2].bbox[3]

\* the taxonomy of the claim, by class id
TaxonomyName(n) ==
    CASE n = 0 -> "falsecopper" [] n = 1 -> "missinghole" [] n = 2 -> "mousebite"
      [] n = 3 -> "opencircuit" [] n = 4 -> "pinhole" [] n = 5 -> "scratch"
      [] n = 6 -> "shortcircuit" [] n = 7 -> "spur"
      [] n = 8 -> "unknown_8" [] n = 9 -> "unknown_9" [] n = 10 -> "unknown_10"

\* C25: the normalizer returns one Detection for each raw detection, in
\* input order, whose type is the taxonomy name of the class id for ids 0
\* to 7 and unknown_n for every other id n.
C25_TaxonomyMapping ==
    polOut # None =>
        /\ Len(polOut.defects) = Len(polIn.boxes)
        /\ \A k \in 1..Len(polIn.boxes) :
              /\ polOut.defects[k].type = TaxonomyName(polIn.boxes[k].cls)
              /\ polOut.defects[k].confidence = (polIn.boxes[k].conf + 5) \div 10

\* a spur and a box of class 9 were normalized to spur and unknown_9, in
\* that order
C25_Witness ==
    /\ polOut # None /\ Len(polIn.boxes) = 2
    /\ polIn.boxes[1].cls = 7 /\ polIn.boxes[2].cls = 9
    /\ polOut.defects[1].type = "spur" /\ polOut.defects[2].type = "unknown_9"


(***************************************************************************)
(* SpecRoundTrip: the result records process_pcb_image and                 *)
(* process_pcb_video write and get_result reads back.  File names and ids  *)
(* are sequences of character codes, so that startswith, endswith and the  *)
(* order of sorted() are those of Python strings.  polIn holds the results *)
(* directory (name -> JSON text), the clock and, as history, the verdicts  *)
(* last persisted under each id; polOut holds the last response.           *)
(***************************************************************************)
startswith(f, prefix) == Len(prefix) <= Len(f) /\ SubSeq(f, 1, Len(prefix)) = prefix

endswith(f, suffix) ==
    Len(suffix) <= Len(f) /\ SubSeq(f, Len(f) - Len(suffix) + 1, Len(f)) = suffix

\* the order of Python strings: by the first differing character, a proper
\* prefix first
str_less(a, b) ==
    \E i \in 1..(Min(Len(a), Len(b)) + 1) :
        /\ SubSeq(a, 1, i - 1) = SubSeq(b, 1, i - 1)
        /\ IF i > Len(a) THEN i <= Len(b)
           ELSE i <= Len(b) /\ a[i] < b[i]

\* sorted(names)[-1]
sorted_last(names) == CHOOSE f \in names : \A g \in names \ {f} : str_less(g, f)

Underscore == <<95>>
ResultSuffix == <<95, 114, 101, 115, 117, 108, 116, 46, 106, 115, 111, 110>>            \* "_result.json"
VideoResultInfix == <<95, 114, 101, 115, 117, 108, 116, 95>>        \* "_result_"
JsonSuffix == <<46, 106, 115, 111, 110>>              \* ".json"
SummarySuffix == <<45, 83, 85, 77, 77, 65, 82, 89>>           \* "-SUMMARY"
FrameSuffix == <<45, 70, 48, 48, 48, 49>>             \* "-F0001"

\* lines 87 and 278: strftime("%Y%m%d_%H%M%S") at second t of 2026-11-01 12:00
strftime(t) == <<50, 48, 50, 54, 49, 49, 48, 49, 95, 49, 50, 48, 48, 48>> \o <<48 + t>>

\* line 577: f"{i:03d}", for i below 10
index_03d(i) == <<48, 48, 48 + i>>

\* line 132
result_filename(pcb_id, t) == pcb_id \o Underscore \o strftime(t) \o ResultSuffix

\* line 578
video_result_filename(video_id, t, i) ==
    video_id \o Underscore \o strftime(t) \o VideoResultInfix \o index_03d(i) \o JsonSuffix

\* lines 117-130: the verdict of an image, for the fields a reader compares
inspection_result(pcb_id, outcome) ==
    [pcbId |-> pcb_id,
     status |-> IF outcome = "fail" THEN "FAIL" ELSE "PASS",
     defectType |-> IF outcome = "fail" THEN "Scratch" ELSE "None",
     metrics |-> [total_defects |-> IF outcome = "fail" THEN 1 ELSE 0]]

\* lines 493-515 and 555-573: the summary and the frame verdict of a video
\* of two frames whose first frame has one defect (density in 1/10000)
video_frame_results(video_id) ==
    << [pcbId |-> video_id \o SummarySuffix, status |-> "FAIL",
        defectType |-> "Video Summary - Scratch",
        metrics |-> [total_frames |-> 2, processed_frames |-> 2,
                     frames_with_defects |-> 1, total_defects |-> 1,
                     defect_density |-> 5000, frame_interval |-> 1]],
       [pcbId |-> video_id \o FrameSuffix, status |-> "FAIL",
        defectType |-> "Scratch",
        metrics |-> [total_defects |-> 1, frame_number |-> 1]] >>

\* json.dump, lines 135 and 580: an object is the set of its members, a
\* member's value a string, a number or an object of numbers
json_dump(result) ==
    {[key |-> k, value |-> [string |-> result[k]]] : k \in DOMAIN result \ {"metrics"}}
    \cup {[key |-> "metrics",
           value |-> [object |-> {[key |-> m, value |-> [number |-> result.metrics[m]]] :
                                     m \in DOMAIN result.metrics}]]}

json_value(v) ==
    IF "string" \in DOMAIN v THEN v.string
    ELSE IF "number" \in DOMAIN v THEN v.number
    ELSE [m \in {x.key : x \in v.object} |->
             (CHOOSE x \in v.object : x.key = m).value.number]

\* json.load, line 797
json_load(text) ==
    [k \in {x.key : x \in text} |-> json_value((CHOOSE x \in text : x.key = k).value)]

\* lines 788-800
get_result(results, pcb_id) ==
    LET result_files == {f \in DOMAIN results :
                            startswith(f, pcb_id) /\ endswith(f, ResultSuffix)}
    IN  IF result_files = {} THEN [op |-> "get_result", pcb_id |-> pcb_id, code |-> 404]
        ELSE [op |-> "get_result", pcb_id |-> pcb_id, code |-> 200,
              body |-> json_load(results[sorted_last(result_files)])]

ResultIds == {<<65, 49>>, <<65, 49, 98>>, <<86, 49>>}    \* "A1", "A1b", "V1"

ImageVerdicts == {"pass", "fail", "unreadable"}

Store(fs, name, text) == [f \in DOMAIN fs \cup {name} |-> IF f = name THEN text ELSE fs[f]]

Persisted(stored, id, verdicts) ==
    [i \in DOMAIN stored \cup {id} |-> IF i = id THEN verdicts ELSE stored[i]]

RoundTripInit ==
    /\ polIn = [results |-> << >>, clock |-> 0, runs |-> 0, stored |-> << >>]
    /\ polOut = None
    /\ VideoIdle /\ StoreIdle

\* lines 66-147: an inspection of an image at second t; only a verdict that
\* is not an error is written
ProcessImage ==
    \E pcb_id \in ResultIds, t \in 0..MaxResultSeconds, outcome \in ImageVerdicts :
        /\ polIn.runs < MaxStored
        /\ t >= polIn.clock
        /\ IF outcome = "unreadable"
           THEN /\ polIn' = [polIn EXCEPT !.clock = t, !.runs = @ + 1]
                /\ polOut' = [op |-> "inspect", pcb_id |-> pcb_id, code |-> 200,
                              body |-> [pcbId |-> pcb_id, status |-> "ERROR",
                                        defectType |-> "Processing Error"]]
           ELSE LET r == inspection_result(pcb_id, outcome)
                IN  /\ polIn' = [results |-> Store(polIn.results,
                                                    result_filename(pcb_id, t), json_dump(r)),
                                  clock |-> t, runs |-> polIn.runs + 1,
                                  stored |-> Persisted(polIn.stored, pcb_id, {r})]
                    /\ polOut' = [op |-> "inspect", pcb_id |-> pcb_id, code |-> 200,
                                  body |-> r]
    /\ UNCHANGED <<videoVars, storeVars>>

\* lines 490-583: a video inspection at second t writes its summary and its
\* frame verdicts as records 000, 001, ...
ProcessVideo ==
    \E video_id \in ResultIds, t \in 0..MaxResultSeconds :
        LET rs == video_frame_results(video_id)
            written_records ==
                [f \in DOMAIN polIn.results
                       \cup {video_result_filename(video_id, t, i - 1) : i \in 1..Len(rs)} |->
                    IF \E i \in 1..Len(rs) : f = video_result_filename(video_id, t, i - 1)
                    THEN json_dump(rs[CHOOSE i \in 1..Len(rs) :
                                         f = video_result_filename(video_id, t, i - 1)])
                    ELSE polIn.results[f]]
        IN  /\ polIn.runs < MaxStored
            /\ t >= polIn.clock
            /\ polIn' = [results |-> written_records, clock |-> t, runs |-> polIn.runs + 1,
                          stored |-> Persisted(polIn.stored, video_id,
                                               {rs[i] : i \in 1..Len(rs)})]
            /\ polOut' = [op |-> "inspect-video", pcb_id |-> video_id, code |-> 200,
                          body |-> rs[1]]
    /\ UNCHANGED <<videoVars, storeVars>>

\* lines 783-800
GetResult ==
    \E pcb_id \in ResultIds :
        /\ polOut' = get_result(polIn.results, pcb_id)
        /\ polOut' # polOut
        /\ UNCHANGED <<polIn, videoVars, storeVars>>

RoundTripNext == ProcessImage \/ ProcessVideo \/ GetResult

SpecRoundTrip == RoundTripInit /\ [][RoundTripNext]_vars

Verdict(r) == [status |-> r.status, defectType |-> r.defectType, metrics |-> r.metrics]

\* C26: reloading the result of an id under which a verdict was persisted
\* succeeds and returns the status, defectType and metrics of a verdict
\* last persisted under that id, for image verdicts and for the summary and
\* frame verdicts of a video.
C26_ResultRoundTrip ==
    (polOut # None /\ polOut.op = "get_result" /\ polOut.pcb_id \in DOMAIN polIn.stored) =>
        /\ polOut.code = 200
        /\ Verdict(polOut.body) \in {Verdict(r) : r \in polIn.stored[polOut.pcb_id]}

\* the image verdict of A1 was read back unchanged: the record itself
\* survives json.dump and json.load
C26_ImageReloaded ==
    /\ polOut # None /\ polOut.op = "get_result" /\ polOut.code = 200
    /\ polOut.pcb_id \in DOMAIN polIn.stored
    /\ polIn.stored[polOut.pcb_id] = {polOut.body}
    /\ polOut.body.status = "FAIL"


\* C27: in the frame loop every frame read is written exactly once and in
\* read order before the next frame is read: after k reads the writer has
\* been given exactly the frames 1..k in that order, each as annotated when
\* it was inferred, as a copy when it was skipped, and as the frame read
\* when the dimensions are wrong; and a read step adds one write.
C27_WritesFollowReads ==
    /\ Len(written) = frame_count
    /\ \A k \in 1..Len(written) :
          /\ written[k].frame = k
          /\ written[k].kind =
                IF ~shape_ok(video) THEN "original"
                ELSE IF k \in inferred THEN "annotated" ELSE "skipped"

C27_FrameOrder ==
    []C27_WritesFollowReads
    /\ [][frame_count' # frame_count =>
            /\ frame_count' = frame_count + 1
            /\ Len(written') = Len(written) + 1
            /\ SubSeq(written', 1, Len(written)) = written
            /\ written'[Len(written')].frame = frame_count']_vars

\* three frames were read at an interval of two: the first and third were
\* inferred, the second skipped, and all three written in that order
C27_Witness ==
    /\ frame_count = 3 /\ frame_interval = 2
    /\ inferred = {1, 3}
    /\ Len(written) = 3
    /\ written[1].kind = "annotated" /\ written[2].kind = "skipped"
    /\ written[3].kind = "annotated"


\* C28: for every writer candidate that can be selected, the third (MP4)
\* included, the path the transcode step writes to differs from the path of
\* the raw processed video it reads.
C28_TranscodePathsDistinct ==
    convert # None => convert.raw # browser_video_path

\* C29: when the stream delivers exactly total_frames frames, the number of
\* frames that received inference in the loop equals the processed_frames
\* the summary reports, ceil(total_frames / frame_interval), for every
\* total_frames >= 0 and frame_interval >= 1.
C29_ProcessedMatchesSampler ==
    (vpc = "done" /\ video.frames = video.total_frames) =>
        /\ frame_interval >= 1
        /\ frame_results[1].processed_frames = Cardinality(inferred)
        /\ Cardinality(inferred) * frame_interval >= video.total_frames
        /\ (Cardinality(inferred) - 1) * frame_interval < Max(1, video.total_frames)

\* a stream of three frames, reported as three, sampled at an interval of
\* two: frames 1 and 3 were inferred and the summary reports 2
C29_Witness ==
    /\ vpc = "done"
    /\ video.frames = 3 /\ video.total_frames = 3
    /\ frame_interval = 2
    /\ inferred = {1, 3}
    /\ frame_results[1].processed_frames = 2


(***************************************************************************)
(* SpecSafety: safety_backend_server.py, the demo generator thread and the *)
(* update handler on one SafetyBackend object.  Nothing in the class locks *)
(* the object, so the threads interleave between statements.  polIn holds  *)
(* the object (current_data, historical_data, is_connected), polOut the    *)
(* position of each thread.  A reading carries its source and one value.   *)
(***************************************************************************)
HistoryLimit == 100        \* lines 58 and 76: the last 100 readings are kept

ArduinoTemperatures == {25, 30}

\* lines 57-59 and 75-77: append a copy, drop the oldest beyond the limit
append_reading(historical_data, reading) ==
    LET h == Append(historical_data, reading)
    IN  IF Len(h) > HistoryLimit THEN Tail(h) ELSE h

\* lines 18-31: the object after construction, the demo thread started
SafetyInit ==
    /\ polIn = [current_data |-> [source |-> "initial", temperature |-> 22],
                historical_data |-> << >>, is_connected |-> FALSE]
    /\ polOut = [demo |-> "check", rounds |-> 0, update |-> "idle", updates |-> 0]
    /\ VideoIdle /\ StoreIdle

\* line 36: the demo thread reads is_connected; line 61: it sleeps and tests
\* again
DemoCheck ==
    /\ polOut.demo = "check"
    /\ polOut.rounds < MaxDemoRounds
    /\ polOut' = [polOut EXCEPT !.demo = IF polIn.is_connected THEN "check" ELSE "assign",
                                !.rounds = @ + 1]
    /\ UNCHANGED <<polIn, videoVars, storeVars>>

\* lines 47-54: the demo reading becomes current_data
DemoAssign ==
    /\ polOut.demo = "assign"
    /\ polIn' = [polIn EXCEPT !.current_data =
                                  [source |-> "demo", temperature |-> 20 + polOut.rounds]]
    /\ polOut' = [polOut EXCEPT !.demo = "append"]
    /\ UNCHANGED <<videoVars, storeVars>>

\* lines 57-59: a copy of current_data, whatever it is by now, is appended
DemoAppend ==
    /\ polOut.demo = "append"
    /\ polIn' = [polIn EXCEPT !.historical_data = append_reading(@, polIn.current_data)]
    /\ polOut' = [polOut EXCEPT !.demo = "check"]
    /\ UNCHANGED <<videoVars, storeVars>>

\* lines 65-72: update_sensor_data stores the reading of the Arduino
UpdateAssign ==
    /\ polOut.update = "idle"
    /\ polOut.updates < MaxUpdates
    /\ \E t \in ArduinoTemperatures :
          polIn' = [polIn EXCEPT !.current_data = [source |-> "arduino", temperature |-> t]]
    /\ polOut' = [polOut EXCEPT !.update = "append", !.updates = @ + 1]
    /\ UNCHANGED <<videoVars, storeVars>>

\* lines 75-77
UpdateAppend ==
    /\ polOut.update = "append"
    /\ polIn' = [polIn EXCEPT !.historical_data = append_reading(@, polIn.current_data)]
    /\ polOut' = [polOut EXCEPT !.update = "connect"]
    /\ UNCHANGED <<videoVars, storeVars>>

\* lines 79-80
UpdateConnect ==
    /\ polOut.update = "connect"
    /\ polIn' = [polIn EXCEPT !.is_connected = TRUE]
    /\ polOut' = [polOut EXCEPT !.update = "idle"]
    /\ UNCHANGED <<videoVars, storeVars>>

SafetyNext ==
    \/ DemoCheck
    \/ DemoAssign
    \/ DemoAppend
    \/ UpdateAssign
    \/ UpdateAppend
    \/ UpdateConnect

SpecSafety == SafetyInit /\ [][SafetyNext]_vars

\* C30: once update_sensor_data has stored an Arduino reading and set
\* is_connected, no step of the demo generator overwrites current_data or
\* appends a demo reading to historical_data, in any interleaving.
C30_NoDemoAfterArduino ==
    [][polIn.is_connected =>
          /\ (polIn'.current_data # polIn.current_data =>
                 polIn'.current_data.source = "arduino")
          /\ (polIn'.historical_data # polIn.historical_data =>
                 polIn'.historical_data[Len(polIn'.historical_data)].source = "arduino")]_vars

=============================================================================
